---------------------------- MODULE Spec2Model ----------------------------
(***************************************************************************)
(* A model of main_pr_aepx.py: the project/folder comparison behind the    *)
(* "start" button (run_compare), the comparison core (compare_filenames,   *)
(* parse_project_filenames, scan_folder_filenames, is_ignored) and the     *)
(* path normaliser (_clean_to_filename).                                    *)
(*                                                                         *)
(* Text is modelled as a sequence of one-character strings, so that        *)
(* strip/startswith/endswith/lower/"in" and the two pathlib flavours are   *)
(* computed character by character as the code and the library do.         *)
(***************************************************************************)
EXTENDS Integers, Sequences, FiniteSets

\* ------------------------------------------------------------------ bounds

\* The longest raw path text, counted in tokens of RawTokens (SpecClean).
MaxTokens == 4
\* The most elements an XML document holds (Spec).
MaxElems == 2
\* The most entries found beneath the media folder (Spec).
MaxFiles == 2
\* The most names in the declared set and in the disk set (SpecCompare).
MaxNames == 3

\* ------------------------------------------------------------------- text

Range(f) == {f[i] : i \in DOMAIN f}

\* The characters that occur, in code-point order (Python compares str by
\* code point, which is what sorted() uses).
Ascii ==
  <<" ", "!", "\"", "'", ".", "/", "0", "1", "2", "3", "4", "5", "6", "7",
    "8", "9", ":", "?", "A", "B", "C", "D", "E", "F", "G", "H", "I", "J",
    "K", "L", "M", "N", "O", "P", "Q", "R", "S", "T", "U", "V", "W", "X",
    "Y", "Z", "\\", "_", "a", "b", "c", "d", "e", "f", "g", "h", "i", "j",
    "k", "l", "m", "n", "o", "p", "q", "r", "s", "t", "u", "v", "w", "x",
    "y", "z">>

Ord == [c \in Range(Ascii) |-> CHOOSE i \in DOMAIN Ascii : Ascii[i] = c]

UpperCase ==
  <<"A", "B", "C", "D", "E", "F", "G", "H", "I", "J", "K", "L", "M", "N",
    "O", "P", "Q", "R", "S", "T", "U", "V", "W", "X", "Y", "Z">>

LowerCase ==
  <<"a", "b", "c", "d", "e", "f", "g", "h", "i", "j", "k", "l", "m", "n",
    "o", "p", "q", "r", "s", "t", "u", "v", "w", "x", "y", "z">>

ToLower ==
  [c \in Range(Ascii) |->
     IF c \in Range(UpperCase)
       THEN LowerCase[CHOOSE i \in DOMAIN UpperCase : UpperCase[i] = c]
       ELSE c]

\* str.lower()
lower(s) == [i \in DOMAIN s |-> ToLower[s[i]]]

\* s[a:b] with 1-based inclusive positions; empty when a > b.
Slice(s, a, b) == IF a > b THEN <<>> ELSE SubSeq(s, a, b)

\* str.startswith / str.endswith
startswith(s, p) == Len(p) <= Len(s) /\ SubSeq(s, 1, Len(p)) = p
endswith(s, p) ==
  Len(p) <= Len(s) /\ SubSeq(s, Len(s) - Len(p) + 1, Len(s)) = p

\* sub in s
Contains(s, sub) ==
  \E i \in 1..(Len(s) - Len(sub) + 1) : SubSeq(s, i, i + Len(sub) - 1) = sub

\* str.strip(chars): drop every leading and trailing character of the set.
StripChars(s, cs) ==
  LET keep == {i \in DOMAIN s : s[i] \notin cs}
      Min(S) == CHOOSE x \in S : \A y \in S : x <= y
      Max(S) == CHOOSE x \in S : \A y \in S : x >= y
  IN IF keep = {} THEN <<>> ELSE SubSeq(s, Min(keep), Max(keep))

\* str.lstrip(chars)
LStripChars(s, cs) ==
  LET keep == {i \in DOMAIN s : s[i] \notin cs}
      Min(S) == CHOOSE x \in S : \A y \in S : x <= y
  IN IF keep = {} THEN <<>> ELSE SubSeq(s, Min(keep), Len(s))

\* The last component of rel.split(sep) that is neither empty nor ".":
\* what pathlib keeps as the final part of a parsed path ('' when none).
LastComponent(rel, seps) ==
  LET ends == {i \in DOMAIN rel :
                 /\ rel[i] \notin seps
                 /\ (i = Len(rel) \/ rel[i + 1] \in seps)}
      Start(e) == CHOOSE b \in 1..e :
                    /\ \A k \in b..e : rel[k] \notin seps
                    /\ (b = 1 \/ rel[b - 1] \in seps)
      good == {e \in ends : SubSeq(rel, Start(e), e) # <<".">>}
  IN IF good = {} THEN <<>>
     ELSE LET e == CHOOSE x \in good : \A y \in good : x >= y
          IN SubSeq(rel, Start(e), e)

WinSeps == {"\\", "/"}

\* PureWindowsPath(s): what is left of s after its drive and root
\* (pathlib's splitroot for the Windows flavour: "/" counts as "\", a UNC
\* \\host\share is a drive, as is a letter followed by ":").
WindowsRel(s) ==
  LET IsSep(i) == i <= Len(s) /\ s[i] \in WinSeps
      FindSep(start) ==
        LET hits == {i \in DOMAIN s : i >= start /\ s[i] \in WinSeps}
        IN IF hits = {} THEN 0 ELSE CHOOSE i \in hits : \A j \in hits : i <= j
      index == FindSep(3)
      index2 == FindSep(index + 1)
      unc == /\ IsSep(1) /\ IsSep(2) /\ ~IsSep(3)
             /\ index # 0
             /\ index2 # index + 1
      hasDrive == /\ Len(s) >= 2
                  /\ s[2] = ":"
                  /\ s[1] \in Range(UpperCase) \cup Range(LowerCase)
      afterDrive == IF hasDrive THEN Slice(s, 3, Len(s)) ELSE s
  IN IF unc
       THEN IF index2 = 0 THEN <<>> ELSE Slice(s, index2 + 1, Len(s))
       ELSE LStripChars(afterDrive, WinSeps)

\* PureWindowsPath(s).name
PureWindowsPathName(s) == LastComponent(WindowsRel(s), WinSeps)

\* PurePosixPath(s).name: only "/" separates.
PurePosixPathName(s) == LastComponent(LStripChars(s, {"/"}), {"/"})

\* The extended-length prefix \\?\ of line 91.
ExtendedPrefix == <<"\\", "\\", "?", "\\">>

Whitespace == {" "}

\* With a slip: the four characters are cut without the startswith test.
CleanAlwaysCuts(raw) ==
  LET s0 == StripChars(StripChars(StripChars(raw, Whitespace), {"\""}), {"'"})
      s == Slice(s0, 5, Len(s0))
      nm == PureWindowsPathName(s)
  IN IF nm = <<>> \/ nm = s THEN PurePosixPathName(s) ELSE nm

\* _clean_to_filename(raw)
_clean_to_filename(raw) ==
  LET s0 == StripChars(StripChars(StripChars(raw, Whitespace), {"\""}), {"'"})
      s == IF startswith(s0, ExtendedPrefix) THEN Slice(s0, 5, Len(s0)) ELSE s0
      nm == PureWindowsPathName(s)
  IN IF nm = <<>> \/ nm = s THEN PurePosixPathName(s) ELSE nm


\* ----------------------------------------------------------- ignore filter

IGNORE_EXTENSIONS ==
  {<<".", "p", "e", "k">>, <<".", "e", "p", "r">>, <<".", "c", "f", "a">>}

IGNORE_SUBSTRINGS ==
  {<<"_", "p", "r", "o", "x", "y">>,
   <<"_", "s", "u", "b", "c", "l", "i", "p">>}

\* is_ignored(filename)
is_ignored(filename) ==
  LET low == lower(filename)
  IN \/ \E ext \in IGNORE_EXTENSIONS : endswith(low, ext)
     \/ \E sub \in IGNORE_SUBSTRINGS : Contains(low, sub)

\* ------------------------------------------------------------------ sorted

\* a <= b as Python orders str: by code point, a proper prefix first.
RECURSIVE StrLeq(_, _)
StrLeq(a, b) ==
  IF a = <<>> THEN TRUE
  ELSE IF b = <<>> THEN FALSE
  ELSE IF a[1] = b[1] THEN StrLeq(Tail(a), Tail(b))
  ELSE Ord[a[1]] < Ord[b[1]]

\* sorted(S) of a set of str
RECURSIVE sorted(_)
sorted(S) ==
  IF S = {} THEN <<>>
  ELSE LET m == CHOOSE x \in S : \A y \in S : StrLeq(x, y)
       IN <<m>> \o sorted(S \ {m})

\* --------------------------------------------------------- the XML document

\* A document is the sequence of its elements in document order (what
\* iter() walks); an element is its tag, its text ('' when it has none) and
\* whether its markup is well formed (FALSE: an unterminated tag).
TagPool ==
  {<<"F", "i", "l", "e", "P", "a", "t", "h">>,
   <<"p", "a", "t", "h", "u", "r", "l">>,
   <<"T", "i", "t", "l", "e">>}

TextPool ==
  {<<>>,
   <<"C", ":", "\\", "a", ".", "m", "p", "4">>,
   <<"/", "m", "/", "a", ".", "m", "p", "4">>,
   <<"b", ".", "m", "o", "v">>,
   <<"c", "l", "i", "p">>,
   <<"\\", "\\", "n", ".", "l", "\\", "m">>}

Elements == [tag : TagPool, text : TextPool, ok : BOOLEAN]

XmlTexts == UNION {[1..n -> Elements] : n \in 0..MaxElems}

\* A project file as found on disk: whether it opens with the gzip magic
\* number, and the XML it holds.
ProjectFiles == [gzip : BOOLEAN, xml : XmlTexts]

\* Lines 110-114: gzip.open(...).read() when the magic matches, else the
\* raw bytes decoded; both give the XML text the file holds.
ReadContent(file) == file.xml

\* What a strict parser accepts: a root element, and no malformed markup.
WellFormed(xml) == xml # <<>> /\ \A i \in DOMAIN xml : xml[i].ok

\* LET.fromstring(..., XMLParser(recover=True)): the tree without the
\* fragments it could not repair.
LenientParse(xml) == SelectSeq(xml, LAMBDA e : e.ok)

\* The project paths a user may give, as Path(...).suffixes.
ProjectPaths ==
  {<<<<".", "p", "r", "p", "r", "o", "j">>>>,
   <<<<".", "P", "R", "P", "R", "O", "J">>>>,
   <<<<".", "p", "r", "p", "r", "o", "j">>, <<".", "g", "z">>>>,
   <<<<".", "a", "e", "p", "x">>>>,
   <<<<".", "t", "x", "t">>>>}

\* Path.suffix.lower() (line 103)
SuffixOf(suffixes) ==
  IF suffixes = <<>> THEN <<>> ELSE lower(suffixes[Len(suffixes)])

\* Line 106
IsPrproj(suffixes) ==
  \/ SuffixOf(suffixes) = <<".", "p", "r", "p", "r", "o", "j">>
  \/ /\ Len(suffixes) >= 2
     /\ SubSeq(suffixes, Len(suffixes) - 1, Len(suffixes))
          = <<<<".", "p", "r", "p", "r", "o", "j">>, <<".", "g", "z">>>>

\* Line 118
IsAepx(suffixes) == SuffixOf(suffixes) = <<".", "a", "e", "p", "x">>

candidate_tags ==
  {<<"P", "a", "t", "h">>,
   <<"F", "i", "l", "e", "P", "a", "t", "h">>,
   <<"A", "c", "t", "u", "a", "l", "M", "e", "d", "i", "a", "F", "i", "l",
     "e", "P", "a", "t", "h">>,
   <<"A", "b", "s", "o", "l", "u", "t", "e", "P", "a", "t", "h">>}

\* With a slip: the tag is matched with its case as written.
TagMatchesCaseSensitive(tag) == \E t \in candidate_tags : Contains(tag, t)

\* Line 138: any(t.lower() in elem.tag.lower() for t in candidate_tags)
TagMatches(tag) ==
  \E t \in candidate_tags : Contains(lower(tag), lower(t))

\* Lines 138-141: the set after one element of the loop.
AddElement(names, elem) ==
  IF elem.text # <<>> /\ TagMatches(elem.tag)
    THEN LET nm == _clean_to_filename(elem.text)
         IN IF Contains(nm, <<".">>) THEN names \cup {nm} ELSE names
    ELSE names

\* ------------------------------------------------------------ the folder

\* An entry beneath the media folder: the directory it lies in ("" is the
\* folder itself), its name and what it is.
DiskNames == {<<"a", ".", "m", "p", "4">>, <<"c", ".", "m", "o", "v">>}
Dirs == {"", "sub"}
Kinds == {"file", "dir", "link_file", "link_dir"}
Entries == [dir : Dirs, name : DiskNames, kind : Kinds]

Disks ==
  {d \in SUBSET Entries :
     /\ Cardinality(d) <= MaxFiles
     /\ \A e, f \in d : (e.dir = f.dir /\ e.name = f.name) => e = f}

\* folder_path.rglob('*'): every entry at every depth, the subdirectory
\* that holds entries included; a symlink is listed, not descended into.
rglob(d) ==
  d \cup {[dir |-> "", name |-> <<"s", "u", "b">>, kind |-> "dir"] :
            e \in {f \in d : f.dir = "sub"}}

\* Path.is_file(): follows symlinks.
is_file(e) == e.kind \in {"file", "link_file"}

\* With a slip: the is_file() test is dropped.
ScanNoFilter(d) == {e.name : e \in rglob(d)}

\* scan_folder_filenames(folder_path), line 146
scan_folder_filenames(d) == {e.name : e \in {f \in rglob(d) : is_file(f)}}

\* ---------------------------------------------------------- notifications

\* The longest text handed to send_to_lambda (text[:4000]).
TruncLimit == 4000

\* The lengths a notification text may have before it is cut: it grows with
\* the project label and by one line per missing file.
TextLens == {TruncLimit - 1, TruncLimit, TruncLimit + 1}

\* len(text[:4000])
Truncate(n) == IF n > TruncLimit THEN TruncLimit ELSE n

\* ------------------------------------------------------------------ state

VARIABLES
  lxml_available,     \* whether "import lxml.etree" succeeds on this machine
  pc,                 \* where the current call stands
  fields,             \* run_compare: the four entries as read (lines 283-286)
  content,            \* parse_project_filenames: the decoded text, if bound
  root_xml,           \* parse_project_filenames: the elements of the tree
  idx,                \* parse_project_filenames: the loop's next element
  filenames,          \* parse_project_filenames: the set being built
  parses,             \* the parse attempts made so far, in order
  error,              \* the exception raised in this run ("" if none)
  project_files_raw,  \* compare_filenames, line 166
  actual_files_raw,   \* compare_filenames, line 167
  project_files,      \* compare_filenames, line 169
  actual_files,       \* compare_filenames, line 170
  result,             \* <<matched, missing, extra>> once returned, else <<>>
  disk,               \* the entries beneath the media folder, as scanned
  events,             \* the run's outward effects so far, in order
  sent,               \* the texts given to send_to_lambda: full and sent length
  raw,                \* _clean_to_filename: its argument
  name                \* _clean_to_filename: its result

parseVars == <<content, root_xml, idx, filenames, parses>>
compareVars ==
  <<project_files_raw, actual_files_raw, project_files, actual_files,
    result, disk>>
runVars == <<fields, error, events, sent>>
cleanVars == <<raw, name>>
vars == <<lxml_available, pc, parseVars, compareVars, runVars, cleanVars>>

Unbound == [bound |-> FALSE, xml |-> <<>>]

NoFields == [prproj |-> <<>>, folder |-> FALSE, output |-> FALSE, uid |-> FALSE]

\* Nothing has run yet: every local is unset.
Fresh ==
  /\ content = Unbound
  /\ root_xml = <<>>
  /\ idx = 1
  /\ filenames = {}
  /\ parses = <<>>
  /\ error = ""
  /\ project_files_raw = {}
  /\ actual_files_raw = {}
  /\ project_files = {}
  /\ actual_files = {}
  /\ result = <<>>
  /\ disk = {}
  /\ events = <<>>
  /\ sent = <<>>

\* The window is up and no comparison has been started.
Init ==
  /\ Fresh
  /\ lxml_available \in BOOLEAN
  /\ pc = "idle"
  /\ fields = NoFields
  /\ raw = <<>>
  /\ name = <<>>

\* ------------------------------------------------------------- run_compare

\* Lines 283-290 with every entry filled in: the run starts.
RunCompare ==
  /\ pc = "idle"
  /\ \E p \in ProjectPaths :
       fields' = [prproj |-> p, folder |-> TRUE, output |-> TRUE, uid |-> TRUE]
  /\ pc' = "parse"
  /\ UNCHANGED <<lxml_available, parseVars, compareVars, error, events, sent,
                 cleanVars>>

\* Lines 283-290 with an entry left empty: a warning, and nothing else.
RunCompareMissingInput ==
  /\ pc = "idle"
  /\ \E p \in ProjectPaths \cup {<<>>}, f \in BOOLEAN, o \in BOOLEAN,
        u \in BOOLEAN :
       /\ p = <<>> \/ ~f \/ ~o \/ ~u
       /\ fields' = [prproj |-> p, folder |-> f, output |-> o, uid |-> u]
  /\ events' = <<"showwarning">>
  /\ pc' = "done"
  /\ UNCHANGED <<lxml_available, parseVars, compareVars, error, sent,
                 cleanVars>>

\* ------------------------------------------------- parse_project_filenames

\* Lines 106-115: the compressed-project branch reads the file and parses
\* the text strictly with ET.fromstring.
ParseOpenPrproj ==
  /\ pc = "parse"
  /\ IsPrproj(fields.prproj)
  /\ \E file \in ProjectFiles :
       LET text == ReadContent(file)
       IN /\ content' = [bound |-> TRUE, xml |-> text]
          /\ IF WellFormed(text)
               THEN /\ root_xml' = text
                    /\ error' = error
                    /\ pc' = "lenient"
               ELSE /\ root_xml' = root_xml
                    /\ error' = "ParseError"
                    /\ pc' = "raised"
  /\ parses' = Append(parses, "strict")
  /\ UNCHANGED <<lxml_available, idx, filenames, compareVars, fields, events,
                 sent, cleanVars>>

\* Lines 118-119: the plain-XML branch parses the file with ET.parse and
\* binds root_xml only; content stays unbound.
ParseOpenAepx ==
  /\ pc = "parse"
  /\ ~IsPrproj(fields.prproj)
  /\ IsAepx(fields.prproj)
  /\ \E file \in ProjectFiles :
       IF ~file.gzip /\ WellFormed(file.xml)
         THEN /\ root_xml' = file.xml
              /\ error' = error
              /\ pc' = "lenient"
         ELSE /\ root_xml' = root_xml
              /\ error' = "ParseError"
              /\ pc' = "raised"
  /\ parses' = Append(parses, "strict")
  /\ UNCHANGED <<lxml_available, content, idx, filenames, compareVars, fields,
                 events, sent, cleanVars>>

\* With a slip: the folder is scanned before the project is opened.
ParseUnsupportedAfterScan ==
  /\ pc = "parse"
  /\ ~IsPrproj(fields.prproj)
  /\ ~IsAepx(fields.prproj)
  /\ events' = Append(events, "scan")
  /\ error' = "ValueError"
  /\ pc' = "raised"
  /\ UNCHANGED <<lxml_available, parseVars, compareVars, fields, sent,
                 cleanVars>>

\* Lines 121-122: any other extension raises ValueError.
ParseUnsupported ==
  /\ pc = "parse"
  /\ ~IsPrproj(fields.prproj)
  /\ ~IsAepx(fields.prproj)
  /\ error' = "ValueError"
  /\ pc' = "raised"
  /\ UNCHANGED <<lxml_available, parseVars, compareVars, fields, events, sent,
                 cleanVars>>

\* Lines 125-129: lxml is imported, content is encoded and parsed with
\* recover=True.
ParseLenient ==
  /\ pc = "lenient"
  /\ lxml_available
  /\ content.bound
  /\ LenientParse(content.xml) # <<>>
  /\ root_xml' = LenientParse(content.xml)
  /\ parses' = Append(parses, "lenient")
  /\ pc' = "extract"
  /\ UNCHANGED <<lxml_available, content, idx, filenames, compareVars, runVars,
                 cleanVars>>

\* Lines 130-133: the import, the read of content or the lenient parse
\* raised; the handler parses content strictly, and what that raises
\* leaves the function.
ParseFallback ==
  /\ pc = "lenient"
  /\ ~(lxml_available /\ content.bound /\ LenientParse(content.xml) # <<>>)
  /\ parses' = (IF lxml_available /\ content.bound
                  THEN Append(parses, "lenient") ELSE parses)
                 \o (IF content.bound THEN <<"strict">> ELSE <<>>)
  /\ IF ~content.bound
       THEN /\ error' = "UnboundLocalError"
            /\ root_xml' = root_xml
            /\ pc' = "raised"
       ELSE IF ~WellFormed(content.xml)
         THEN /\ error' = "ParseError"
              /\ root_xml' = root_xml
              /\ pc' = "raised"
         ELSE /\ error' = error
              /\ root_xml' = content.xml
              /\ pc' = "extract"
  /\ UNCHANGED <<lxml_available, content, idx, filenames, compareVars, fields,
                 events, sent, cleanVars>>

\* Lines 137-141: one turn of the loop over root_xml.iter().
ExtractElement ==
  /\ pc = "extract"
  /\ idx <= Len(root_xml)
  /\ filenames' = AddElement(filenames, root_xml[idx])
  /\ idx' = idx + 1
  /\ UNCHANGED <<lxml_available, pc, content, root_xml, parses, compareVars,
                 runVars, cleanVars>>

\* Line 142: the loop is over and the set is returned.
ParseReturn ==
  /\ pc = "extract"
  /\ idx > Len(root_xml)
  /\ pc' = "returned"
  /\ UNCHANGED <<lxml_available, parseVars, compareVars, runVars, cleanVars>>

\* -------------------------------------------------------- compare_filenames

\* Line 166: compare_filenames binds what parse_project_filenames
\* returned, whose locals are gone from here on.
BindDeclared ==
  /\ pc = "returned"
  /\ project_files_raw' = filenames
  /\ content' = Unbound /\ root_xml' = <<>> /\ idx' = 1 /\ filenames' = {}
  /\ pc' = "parsed"
  /\ UNCHANGED <<lxml_available, parses, actual_files_raw, project_files,
                 actual_files, result, disk, runVars, cleanVars>>

\* Line 167: the folder is scanned once the declared set is in hand.
ScanFolder ==
  /\ pc = "parsed"
  /\ \E d \in Disks :
       /\ disk' = d
       /\ actual_files_raw' = scan_folder_filenames(d)
  /\ events' = Append(events, "scan")
  /\ pc' = "filter"
  /\ UNCHANGED <<lxml_available, parseVars, project_files_raw, project_files,
                 actual_files, result, fields, error, sent, cleanVars>>

\* With a slip: only the declared set is filtered.
FilterDeclaredOnly ==
  /\ pc = "filter"
  /\ project_files' = {f \in project_files_raw : ~is_ignored(f)}
  /\ actual_files' = actual_files_raw
  /\ pc' = "reconcile"
  /\ UNCHANGED <<lxml_available, parseVars, project_files_raw,
                 actual_files_raw, result, disk, runVars, cleanVars>>

\* Lines 169-170: both sets lose their ignorable names.
FilterIgnored ==
  /\ pc = "filter"
  /\ project_files' = {f \in project_files_raw : ~is_ignored(f)}
  /\ actual_files' = {f \in actual_files_raw : ~is_ignored(f)}
  /\ pc' = "reconcile"
  /\ UNCHANGED <<lxml_available, parseVars, project_files_raw,
                 actual_files_raw, result, disk, runVars, cleanVars>>

\* With a slip: missing is taken from the unfiltered declared set.
ReconcileRawMissing ==
  /\ pc = "reconcile"
  /\ result' = <<sorted(project_files \cap actual_files),
                 sorted(project_files_raw \ actual_files),
                 sorted(actual_files \ project_files)>>
  /\ pc' = "compared"
  /\ UNCHANGED <<lxml_available, parseVars, project_files_raw,
                 actual_files_raw, project_files, actual_files, disk,
                 runVars, cleanVars>>

\* Lines 171-174: matched, missing and extra, each sorted, are returned.
Reconcile ==
  /\ pc = "reconcile"
  /\ result' = <<sorted(project_files \cap actual_files),
                 sorted(project_files \ actual_files),
                 sorted(actual_files \ project_files)>>
  /\ pc' = "compared"
  /\ UNCHANGED <<lxml_available, parseVars, project_files_raw,
                 actual_files_raw, project_files, actual_files, disk,
                 runVars, cleanVars>>

\* --------------------------------------------------- run_compare, continued

\* Lines 298-339: the result is shown and the report file is written.
WriteReport ==
  /\ pc = "compared"
  /\ events' = Append(events, "report")
  /\ pc' = "notify"
  /\ UNCHANGED <<lxml_available, parseVars, compareVars, fields, error, sent,
                 cleanVars>>

\* Line 337 raising (the output folder cannot be written): no report.
WriteReportFails ==
  /\ pc = "compared"
  /\ error' = "OSError"
  /\ pc' = "raised"
  /\ UNCHANGED <<lxml_available, parseVars, compareVars, fields, events, sent,
                 cleanVars>>

\* Lines 342-343: the summary, cut to 4000 characters, goes to
\* send_to_lambda, which swallows what the POST raises.
NotifySummary ==
  /\ pc = "notify"
  /\ \E n \in TextLens :
       sent' = Append(sent, [kind |-> "summary", full |-> n,
                             cut |-> Truncate(n)])
  /\ events' = Append(events, "notify")
  /\ pc' = "save"
  /\ UNCHANGED <<lxml_available, parseVars, compareVars, fields, error,
                 cleanVars>>

\* Line 346: the preferences are saved last.
SaveConfig ==
  /\ pc = "save"
  /\ events' = Append(events, "save_config")
  /\ pc' = "done"
  /\ UNCHANGED <<lxml_available, parseVars, compareVars, fields, error, sent,
                 cleanVars>>

\* With a slip: the handler notifies before it writes the log, and
\* saves the preferences as well.
HandleErrorEager ==
  /\ pc = "raised"
  /\ \E n \in TextLens :
       sent' = Append(sent, [kind |-> "error", full |-> n,
                             cut |-> Truncate(n)])
  /\ events' = events \o <<"notify", "log", "save_config">>
  /\ content' = Unbound /\ root_xml' = <<>> /\ idx' = 1 /\ filenames' = {}
  /\ pc' = "done"
  /\ UNCHANGED <<lxml_available, parses, compareVars, fields, error,
                 cleanVars>>

\* Lines 348-362: the traceback is logged (which is the last use of the
\* frames it names), then the error summary, cut to 4000 characters, goes
\* to send_to_lambda.
HandleError ==
  /\ pc = "raised"
  /\ \E n \in TextLens :
       sent' = Append(sent, [kind |-> "error", full |-> n,
                             cut |-> Truncate(n)])
  /\ events' = events \o <<"log", "notify">>
  /\ content' = Unbound /\ root_xml' = <<>> /\ idx' = 1 /\ filenames' = {}
  /\ pc' = "done"
  /\ UNCHANGED <<lxml_available, parses, compareVars, fields, error,
                 cleanVars>>

\* run_compare returns to the event loop: its locals are gone, and the
\* button can be pressed again.
Return ==
  /\ pc = "done"
  /\ content' = Unbound /\ root_xml' = <<>> /\ idx' = 1 /\ filenames' = {}
  /\ parses' = <<>> /\ error' = ""
  /\ project_files_raw' = {} /\ actual_files_raw' = {}
  /\ project_files' = {} /\ actual_files' = {}
  /\ result' = <<>> /\ disk' = {}
  /\ events' = <<>> /\ sent' = <<>>
  /\ fields' = NoFields
  /\ pc' = "idle"
  /\ UNCHANGED <<lxml_available, cleanVars>>

Next ==
  \/ RunCompare
  \/ RunCompareMissingInput
  \/ ParseOpenPrproj
  \/ ParseOpenAepx
  \/ ParseUnsupported
  \/ ParseLenient
  \/ ParseFallback
  \/ ExtractElement
  \/ ParseReturn
  \/ BindDeclared
  \/ ScanFolder
  \/ FilterIgnored
  \/ Reconcile
  \/ WriteReport
  \/ WriteReportFails
  \/ NotifySummary
  \/ SaveConfig
  \/ HandleError
  \/ Return

Spec == Init /\ [][Next]_vars

\* -------------------------------------------- compare_filenames' set algebra

\* The names the two sets are drawn from: plain media, and every way a
\* name can be ignorable.
NamePool ==
  {<<"a", ".", "m", "p", "4">>,
   <<"b", ".", "m", "o", "v">>,
   <<"c", ".", "m", "o", "v">>,
   <<"p", "r", "o", "x", "y", "_", "a", "_", "p", "r", "o", "x", "y", ".",
     "m", "p", "4">>,
   <<"x", ".", "P", "E", "K">>,
   <<"c", "l", "i", "p", "_", "S", "u", "b", "C", "l", "i", "p", ".", "m",
     "o", "v">>,
   <<"n", "o", "t", "e", "s", ".", "e", "p", "r">>,
   <<"a", ".", "p", "e", "k", ".", "b", "a", "k">>}

NameSets == {S \in SUBSET NamePool : Cardinality(S) <= MaxNames}

\* compare_filenames after lines 166-167: any declared set against any
\* disk set.
InitCompare ==
  /\ content = Unbound /\ root_xml = <<>> /\ idx = 1 /\ filenames = {}
  /\ parses = <<>> /\ error = ""
  /\ project_files_raw \in NameSets
  /\ actual_files_raw \in NameSets
  /\ project_files = {} /\ actual_files = {}
  /\ result = <<>> /\ disk = {}
  /\ events = <<>> /\ sent = <<>>
  /\ lxml_available = TRUE
  /\ pc = "filter"
  /\ fields = NoFields
  /\ raw = <<>>
  /\ name = <<>>

NextCompare == FilterIgnored \/ Reconcile

SpecCompare == InitCompare /\ [][NextCompare]_vars

\* ------------------------------------------------- _clean_to_filename alone

Wrappers == {<<" ">>, <<"\"">>, <<"'">>}

\* The pieces raw path texts are built from: name characters, both
\* separators, the dot, a drive, whitespace, both quotes and the
\* extended-length prefix.
RawTokens ==
  {<<"a">>, <<".">>, <<"\\">>, <<"/">>, <<"C", ":">>, ExtendedPrefix}
    \cup Wrappers

RECURSIVE Flatten(_)
Flatten(ts) == IF ts = <<>> THEN <<>> ELSE Head(ts) \o Flatten(Tail(ts))

\* Token sequences; the extended-length prefix opens the path (after
\* quotes or whitespace at most), as it does in a project document.
TokenSeqs ==
  {ts \in UNION {[1..n -> RawTokens] : n \in 0..MaxTokens} :
     \A i \in DOMAIN ts :
       ts[i] = ExtendedPrefix => \A j \in 1..(i - 1) : ts[j] \in Wrappers}

RawTexts == {Flatten(ts) : ts \in TokenSeqs}

InitClean ==
  /\ Fresh
  /\ lxml_available = TRUE
  /\ pc = "clean"
  /\ fields = NoFields
  /\ raw \in RawTexts
  /\ name = <<>>

\* One call of _clean_to_filename (lines 89-96).
CleanCall ==
  /\ pc = "clean"
  /\ name' = _clean_to_filename(raw)
  /\ pc' = "cleaned"
  /\ UNCHANGED <<lxml_available, raw, parseVars, compareVars, runVars>>

NextClean == CleanCall

SpecClean == InitClean /\ [][NextClean]_vars

\* ------------------------------------------------------------ properties

Has(seq, x) == \E i \in DOMAIN seq : seq[i] = x

HasSeparator(n) == \E i \in DOMAIN n : n[i] \in {"\\", "/"}

HasDot(n) == \E i \in DOMAIN n : n[i] = "."

\* Ignorable as the specification words it: the lower-cased name ends
\* with .pek, .epr or .cfa, or contains _proxy or _subclip.
Ignorable(n) ==
  LET low == lower(n)
  IN \/ endswith(low, <<".", "p", "e", "k">>)
     \/ endswith(low, <<".", "e", "p", "r">>)
     \/ endswith(low, <<".", "c", "f", "a">>)
     \/ Contains(low, <<"_", "p", "r", "o", "x", "y">>)
     \/ Contains(low, <<"_", "s", "u", "b", "c", "l", "i", "p">>)

\* Path-like as the specification words it: the tag contains one of the
\* four markers, whatever the case of either.
PathLike(tag) ==
  LET low == lower(tag)
  IN \/ Contains(low, <<"p", "a", "t", "h">>)
     \/ Contains(low, <<"f", "i", "l", "e", "p", "a", "t", "h">>)
     \/ Contains(low, <<"a", "c", "t", "u", "a", "l", "m", "e", "d", "i",
                        "a", "f", "i", "l", "e", "p", "a", "t", "h">>)
     \/ Contains(low, <<"a", "b", "s", "o", "l", "u", "t", "e", "p", "a",
                        "t", "h">>)

\* The references of a tree: the normalised text of every element that
\* has text, a path-like tag and a dot in its normalised text.
References(tree) ==
  {_clean_to_filename(e.text) :
     e \in {x \in Range(tree) :
              /\ x.text # <<>>
              /\ PathLike(x.tag)
              /\ HasDot(_clean_to_filename(x.text))}}

Matched == Range(result[1])
Missing == Range(result[2])
Extra == Range(result[3])

\* C1: once compare_filenames has returned, matched, missing and extra are
\* pairwise disjoint (and free of repeats), matched and missing together
\* are the declared set without its ignorable names, and matched and extra
\* together are the disk set without its ignorable names.
C1_Partition ==
  pc = "compared" =>
    /\ Matched \cap Missing = {}
    /\ Matched \cap Extra = {}
    /\ Missing \cap Extra = {}
    /\ \A k \in 1..3 : Cardinality(Range(result[k])) = Len(result[k])
    /\ Matched \cup Missing = {f \in project_files_raw : ~Ignorable(f)}
    /\ Matched \cup Extra = {f \in actual_files_raw : ~Ignorable(f)}

\* C1 witness: a comparison whose three sequences are all non-empty and
\* whose two inputs both held an ignorable name.
C1_Witness ==
  /\ pc = "compared"
  /\ Matched # {} /\ Missing # {} /\ Extra # {}
  /\ \E f \in project_files_raw : Ignorable(f)
  /\ \E f \in actual_files_raw : Ignorable(f)

ScenarioDeclared ==
  {<<"a", ".", "m", "p", "4">>, <<"b", ".", "m", "o", "v">>,
   <<"p", "r", "o", "x", "y", "_", "a", "_", "p", "r", "o", "x", "y", ".",
     "m", "p", "4">>}

ScenarioDisk ==
  {<<"a", ".", "m", "p", "4">>, <<"c", ".", "m", "o", "v">>,
   <<"p", "r", "o", "x", "y", "_", "a", "_", "p", "r", "o", "x", "y", ".",
     "m", "p", "4">>}

\* C7: both sets are filtered before they are reconciled, so no name of
\* matched, missing or extra is ignorable; and declared {a.mp4, b.mov,
\* proxy_a_proxy.mp4} against disk {a.mp4, c.mov, proxy_a_proxy.mp4} gives
\* matched = [a.mp4], missing = [b.mov], extra = [c.mov].
C7_NoIgnorableName ==
  pc = "compared" =>
    /\ \A n \in Matched \cup Missing \cup Extra : ~Ignorable(n)
    /\ (project_files_raw = ScenarioDeclared /\ actual_files_raw = ScenarioDisk)
         => result = << <<<<"a", ".", "m", "p", "4">>>>,
                        <<<<"b", ".", "m", "o", "v">>>>,
                        <<<<"c", ".", "m", "o", "v">>>> >>

\* C7 witness: the scenario's two sets have been compared.
C7_Witness ==
  /\ pc = "compared"
  /\ project_files_raw = ScenarioDeclared
  /\ actual_files_raw = ScenarioDisk

\* C2, as claimed: a well-formed .aepx project is parsed to the references
\* of its XML, as a compressed project holding the same XML is, and does
\* not end in an error.
C2_AepxReturnsReferences ==
  (/\ pc \in {"returned", "raised"}
   /\ IsAepx(fields.prproj) /\ ~IsPrproj(fields.prproj)
   /\ WellFormed(root_xml))
    => /\ pc = "returned"
       /\ filenames = References(root_xml)

\* C3, as claimed: with the lenient parser at hand, a malformed project
\* with something left to recover is parsed leniently first and returns
\* the references of its well-formed elements; it does not raise.
C3_LenientBeforeStrict ==
  (/\ pc \in {"returned", "raised"}
   /\ lxml_available
   /\ content.bound
   /\ ~WellFormed(content.xml)
   /\ LenientParse(content.xml) # <<>>)
    => /\ pc = "returned"
       /\ parses[1] = "lenient"
       /\ filenames = References(LenientParse(content.xml))

ExtractionErrors == {"ValueError", "ParseError", "UnboundLocalError"}

\* C4: the folder is scanned only once extraction has succeeded, and a
\* run whose extraction failed has scanned nothing and returned no
\* matched/missing/extra.
C4_ScanAfterExtraction ==
  /\ Has(events, "scan") =>
       /\ pc \notin {"idle", "parse", "lenient", "extract", "returned",
                     "parsed"}
       /\ error \notin ExtractionErrors
  /\ error \in ExtractionErrors =>
       /\ ~Has(events, "scan")
       /\ disk = {} /\ actual_files_raw = {}
       /\ result = <<>>

\* C4 witness: a run on a .txt project has ended in ValueError.
C4_Witness ==
  /\ pc = "done"
  /\ error = "ValueError"
  /\ SuffixOf(fields.prproj) = <<".", "t", "x", "t">>
  /\ ~Has(events, "scan")

\* C5, as claimed: every name parse_project_filenames returns is a bare
\* filename, with neither "\" nor "/" in it.
C5_BareFilenames ==
  pc = "returned" => \A n \in filenames : ~HasSeparator(n)

\* C6, as claimed: on a string without "\" or "/", _clean_to_filename is
\* the identity.
C6_IdentityOnSeparatorFree ==
  (pc = "cleaned" /\ ~HasSeparator(raw)) => name = raw

Edge == Whitespace \cup {"\"", "'"}

\* C6, amended: on a string without "\" or "/" that neither starts nor
\* ends with whitespace or a quote, whose second character is not ":" and
\* that is not ".", _clean_to_filename is the identity.
C6_IdentityOnPlainNames ==
  (/\ pc = "cleaned"
   /\ ~HasSeparator(raw)
   /\ raw # <<>> => (raw[1] \notin Edge /\ raw[Len(raw)] \notin Edge)
   /\ ~(Len(raw) >= 2 /\ raw[2] = ":")
   /\ raw # <<".">>)
    => name = raw

\* C6 witness: a dotted name with a quote inside it came back unchanged.
C6_Witness ==
  /\ pc = "cleaned"
  /\ raw = <<"a", "'", ".", "a">>
  /\ name = raw

\* C8: parse_project_filenames returns exactly the normalised texts of the
\* elements that have text, a path-like tag and a dot in the normalised
\* text, whatever the order of the elements.
C8_ExactReferences ==
  pc = "returned" => filenames = References(root_xml)

\* C8 witness: of two elements with the same text, the one with a
\* lower-case path-like tag contributed and the other did not.
C8_Witness ==
  /\ pc = "returned"
  /\ Len(root_xml) = 2
  /\ root_xml[1].tag = <<"T", "i", "t", "l", "e">>
  /\ root_xml[2].tag = <<"p", "a", "t", "h", "u", "r", "l">>
  /\ root_xml[1].text = <<"b", ".", "m", "o", "v">>
  /\ root_xml[2].text = <<"C", ":", "\\", "a", ".", "m", "p", "4">>
  /\ filenames = {<<"a", ".", "m", "p", "4">>}

\* C9, as claimed: the scan returns the names of the regular files only;
\* no symlink contributes.
C9_RegularFilesOnly ==
  pc = "filter" =>
    actual_files_raw = {e.name : e \in {f \in disk : f.kind = "file"}}

\* C9, amended: the scan returns the names of the entries that are
\* regular files or symlinks to regular files, at any depth; directories
\* and symlinks to directories contribute nothing, and one name found in
\* two directories is one entry.
C9_FilesAndLinksToFiles ==
  pc = "filter" =>
    actual_files_raw =
      {e.name : e \in {f \in disk : f.kind \in {"file", "link_file"}}}

\* C9 witness: a file in the subdirectory and a directory of another name
\* in the folder were scanned to the file's name alone.
C9_Witness ==
  /\ pc = "filter"
  /\ disk = {[dir |-> "sub", name |-> <<"a", ".", "m", "p", "4">>,
              kind |-> "file"],
             [dir |-> "", name |-> <<"c", ".", "m", "o", "v">>,
              kind |-> "dir"]}
  /\ actual_files_raw = {<<"a", ".", "m", "p", "4">>}

Effects ==
  SelectSeq(events,
            LAMBDA e : e \in {"report", "log", "notify", "save_config"})

CutRight(m) ==
  /\ m.cut <= TruncLimit
  /\ m.cut = (IF m.full <= TruncLimit THEN m.full ELSE TruncLimit)

\* C10: a finished run with an empty input has only warned; one whose
\* comparison raised has written no report and saved no preferences, and
\* has logged and then sent one error text cut to 4000 characters; one
\* without any error has written the report, then sent one summary cut to
\* 4000 characters, then saved the preferences.
C10_RunOutcome ==
  pc = "done" =>
    IF fields.prproj = <<>> \/ ~fields.folder \/ ~fields.output \/ ~fields.uid
      THEN /\ events = <<"showwarning">>
           /\ parses = <<>> /\ result = <<>> /\ sent = <<>>
    ELSE IF error \in ExtractionErrors
      THEN /\ Effects = <<"log", "notify">>
           /\ Len(sent) = 1
           /\ sent[1].kind = "error"
           /\ CutRight(sent[1])
    ELSE error = "" =>
           /\ Effects = <<"report", "notify", "save_config">>
           /\ Len(sent) = 1
           /\ sent[1].kind = "summary"
           /\ CutRight(sent[1])

\* C10 witness: a run whose project was malformed has ended with a log and
\* one error text that had to be cut.
C10_Witness ==
  /\ pc = "done"
  /\ error = "ParseError"
  /\ events = <<"log", "notify">>
  /\ Len(sent) = 1
  /\ sent[1].full > TruncLimit
  /\ sent[1].cut = TruncLimit

=============================================================================
